---- MODULE Spec2Model ----
(***************************************************************************)
(* A model of the PubMed proxy's client core (src/client.py) and of the    *)
(* request handlers that drive it (src/main.py).                           *)
(*                                                                         *)
(* The process runs coroutines on one asyncio event loop: code between two *)
(* awaits is atomic, and every await is a point where another coroutine    *)
(* may run.  One action of the model is the code a coroutine runs from one *)
(* await to the next.  A remote operation (Redis GET/SET, the HTTP GET)    *)
(* takes effect, and its outcome is chosen, when its await returns.        *)
(***************************************************************************)
EXTENDS Integers, Sequences, FiniteSets, TLC

----------------------------------------------------------------------------
(* Program constants *)

MAX_RETRIES == 4

RETRY_DELAY == 2

CONCURRENCY_LIMIT_WITH_KEY == 10

CONCURRENCY_LIMIT_WITHOUT_KEY == 3

(* Bounds of the model *)

\* records an esummary payload lists
MaxRecords == 4

\* characters of a search query
MaxQueryLen == 6

\* authors of an article
MaxAuthors == 7

\* characters of an article title
MaxTitleLen == 3

\* AbstractText nodes of an article
MaxSections == 3

\* distinct (url, params) pairs a call may ask for
NumTargets == 2

\* clock ticks that make up settings.CACHE_TTL
CacheTtlTicks == 2

\* calls of a request of four ids that are followed past their first attempt
MaxRetrying == 1

\* ids a search returns to a handler that fetches the details of each
MaxIds == 3

----------------------------------------------------------------------------
(* Values *)

\* Python's None: the failure signal of _make_request, a Redis miss
None == "None"

\* payloads the upstream service may answer with, once decoded: one that
\* holds what the endpoint is asked for (for efetch, an XML document with a
\* PubmedArticle node) and a text that is not well-formed
Values == {"full", "malformed"}

\* a payload as it travels in an HTTP response body
Wire(v) == <<"body", v>>

\* bodies of a 2xx response: decodable ones, one whose content type is not
\* the expected one, and one whose bytes cannot be decoded
Bodies == {Wire(v) : v \in Values} \cup {<<"badtype">>, <<"badbytes">>}

ErrorStatuses == {404, 429, 500}

\* what one HTTP attempt can end with
Outcomes ==
    {[kind |-> "response", status |-> 200, body |-> b] : b \in Bodies}
    \cup {[kind |-> "response", status |-> s, body |-> <<>>] : s \in ErrorStatuses}
    \cup {[kind |-> k, status |-> 0, body |-> <<>>] : k \in {"transport", "timeout"}}

NoOutcome == [kind |-> "none", status |-> 0, body |-> <<>>]

NoExc == [cls |-> "none", status |-> 0]

\* the exception the body of the try block raises for an outcome, if any:
\* session.get (transport error, total timeout), raise_for_status, and
\* response.json() / response.text()
Raised(o) ==
    CASE o.kind = "transport" -> [cls |-> "ClientConnectionError", status |-> 0]
      [] o.kind = "timeout"   -> [cls |-> "TimeoutError", status |-> 0]
      [] o.status >= 400      -> [cls |-> "ClientResponseError", status |-> o.status]
      [] o.body = <<"badtype">>  -> [cls |-> "ClientResponseError", status |-> o.status]
      [] o.body = <<"badbytes">> -> [cls |-> "ValueError", status |-> 0]
      [] OTHER -> NoExc

\* response.json() / response.text() on a decodable body
Decode(b) == b[2]

\* except aiohttp.ClientError
IsClientError(e) == e.cls \in {"ClientResponseError", "ClientConnectionError"}

\* a variant that retries every HTTP error status
IsRetryableAnyStatus(e) ==
    e.cls = "ClientResponseError" /\ e.status >= 400

\* isinstance(e, ClientResponseError) and (e.status == 429 or e.status >= 500)
IsRetryable(e) ==
    e.cls = "ClientResponseError" /\ (e.status = 429 \/ e.status >= 500)

RECURSIVE Pow(_, _)
Pow(b, n) == IF n = 0 THEN 1 ELSE b * Pow(b, n - 1)

\* a variant with a constant delay
DelayFlat(attempt) == RETRY_DELAY

\* delay = self.RETRY_DELAY ** attempt
Delay(attempt) == Pow(RETRY_DELAY, attempt)

\* json.dumps(result)
JsonDumps(v) == <<"json", v>>

\* a variant that hands out the stored text
JsonLoadsRaw(s) == s

\* json.loads(cached_result)
JsonLoads(s) == s[2]

\* a variant for which nothing is true
TruthyNever(s) == FALSE

\* Python truth value of what redis.get returned
Truthy(s) == s # None /\ Len(s) > 0

\* _generate_cache_key, after the credential was added to params
GenerateCacheKey(target, key) == <<"pubmed_cache", target, key>>

----------------------------------------------------------------------------
VARIABLES
    apiKey,     \* settings.NCBI_API_KEY is set
    redisOn,    \* a Redis client was injected (self._redis)
    asks,       \* asks[t]: the (url, params) pairs coroutine t calls with
    owner,      \* owner[t]: the NCBIClient instance call t runs on
    sem,        \* sem[c]: free slots of client c's semaphore
    cache,      \* Redis: key -> [val, ttl]
    calls,      \* calls[t]: the state of _make_request call t
    hist,       \* hist[t]: what call t did so far (history)
    stored,     \* stored[k]: the results written under key k less than a TTL
                \* ago (history): the last one, the first one, the ticks
                \* since the last write
    req,        \* req[r]: the state of the handler of HTTP request r, which
                \* gathers the calls that run on client r
    arg,        \* the argument of the operation a function-level
                \* specification applies
    ret,        \* what that operation returned
    op          \* where that operation stands, when it awaits: its pc, the
                \* _make_request calls it issued and how each ended so far
                \* (history), and the exception it ended with

vars ==
    <<apiKey, redisOn, asks, owner, sem, cache, calls, hist, stored, req,
      arg, ret, op>>

Tasks == DOMAIN calls

\* what no step of a request changes: the settings, who runs on which client
\* and the variables of the function-level specifications
config == <<apiKey, redisOn, asks, owner, arg, ret, op>>

\* ret before and after the operation of a function-level specification
NotCalled == [done |-> FALSE, value |-> << >>]

Returned(v) == [done |-> TRUE, value |-> v]

IdleOp == [pc |-> "idle", issued |-> << >>, got |-> << >>, exc |-> ""]

IdleCall == [pc |-> "idle", target |-> 0, attempt |-> 0, result |-> None]

NoSaw == [last |-> None, first |-> None]

NoHist ==
    [gets |-> 0, fails |-> 0, delays |-> <<>>, last |-> NoOutcome,
     cget |-> "none", cset |-> "none", saw |-> NoSaw]

\* NCBIClient.__init__: the size of the semaphore
ConcurrencyLimit(key) ==
    IF key THEN CONCURRENCY_LIMIT_WITH_KEY ELSE CONCURRENCY_LIMIT_WITHOUT_KEY

CacheKeyOf(t) == GenerateCacheKey(calls[t].target, apiKey)

\* the claims' notion of a transient failure: status 429 or >= 500
TransientStatus(o) ==
    o.kind = "response" /\ (o.status = 429 \/ o.status >= 500)

----------------------------------------------------------------------------
(* Steps of _make_request.  Each helper returns the call's next state, its *)
(* next history and the next number of free slots of its client.           *)

Step(c, h, s) == [call |-> c, hist |-> h, sem |-> s]

\* return None (lines 91-92)
ReturnFailure(c, h, s) ==
    Step([c EXCEPT !.pc = "done", !.result = None], h, s)

\* a variant without the gate: the GET is issued whether a slot is free or not
EnterAttemptUngated(c, h, s, n) ==
    Step([c EXCEPT !.pc = "http", !.attempt = n], [h EXCEPT !.gets = @ + 1], s - 1)

\* async with self._semaphore / session.get: take a slot and issue the GET,
\* or wait for a slot
EnterAttempt(c, h, s, n) ==
    IF s > 0
    THEN Step([c EXCEPT !.pc = "http", !.attempt = n],
              [h EXCEPT !.gets = @ + 1], s - 1)
    ELSE Step([c EXCEPT !.pc = "acquire", !.attempt = n], h, s)

\* a variant whose loop runs once more
LoopNextOneMore(c, h, s, n) ==
    IF n <= MAX_RETRIES THEN EnterAttempt(c, h, s, n) ELSE ReturnFailure(c, h, s)

\* for attempt in range(self.MAX_RETRIES): the next iteration, or the end
LoopNext(c, h, s, n) ==
    IF n < MAX_RETRIES THEN EnterAttempt(c, h, s, n) ELSE ReturnFailure(c, h, s)

\* if attempt < self.MAX_RETRIES - 1: await asyncio.sleep(delay)
SleepsAfter(attempt) == attempt < MAX_RETRIES - 1

\* a variant whose backoff sleep is inside the async with: the slot is kept
\* while the call sleeps
HandleClientErrorHolding(c, h, s, e) ==
    IF IsRetryable(e)
    THEN IF SleepsAfter(c.attempt)
         THEN Step([c EXCEPT !.pc = "sleep"],
                   [h EXCEPT !.delays = Append(@, Delay(c.attempt))], s - 1)
         ELSE LoopNext(c, h, s, c.attempt + 1)
    ELSE ReturnFailure(c, h, s)

\* a variant that stores the failure signal in the cache when it gives up
\* on a status that is not retried
HandleClientErrorCaching(c, h, s, e) ==
    IF IsRetryable(e)
    THEN IF SleepsAfter(c.attempt)
         THEN Step([c EXCEPT !.pc = "sleep"],
                   [h EXCEPT !.delays = Append(@, Delay(c.attempt))], s)
         ELSE LoopNext(c, h, s, c.attempt + 1)
    ELSE Step([c EXCEPT !.pc = "cache_set", !.result = None], h, s - 1)

\* the except clause (lines 79-89), entered with the slot released
HandleClientError(c, h, s, e) ==
    IF IsRetryable(e)
    THEN IF SleepsAfter(c.attempt)
         THEN Step([c EXCEPT !.pc = "sleep"],
                   [h EXCEPT !.delays = Append(@, Delay(c.attempt))], s)
         ELSE LoopNext(c, h, s, c.attempt + 1)
    ELSE ReturnFailure(c, h, s)

\* a variant that gives up the result when the cache write fails
AfterCacheSetStrict(c, fault) ==
    [c EXCEPT !.pc = "done", !.result = IF fault THEN None ELSE @]

\* lines 72-78: whether redis.set returned or raised RedisError, return result
AfterCacheSet(c, fault) == [c EXCEPT !.pc = "done"]

Apply(t, r) ==
    /\ calls' = [calls EXCEPT ![t] = r.call]
    /\ hist' = [hist EXCEPT ![t] = r.hist]
    /\ sem' = [sem EXCEPT ![owner[t]] = r.sem]

----------------------------------------------------------------------------
(* Actions *)

\* a caller invokes _make_request(url, params): lines 46-59, up to the first
\* await (redis.get, or the first attempt when there is no Redis client)
NewCall(t, tg) ==
    /\ calls[t].pc = "idle"
    /\ LET c == [IdleCall EXCEPT !.target = tg]
       IN  IF redisOn
           THEN Apply(t, Step([c EXCEPT !.pc = "cache_get"], NoHist, sem[owner[t]]))
           ELSE Apply(t, LoopNext(c, NoHist, sem[owner[t]], 0))
    /\ UNCHANGED <<config, cache, stored, req>>

\* await self._redis.get(cache_key) returns or raises RedisError (lines 52-57)
CacheGetReturn(t) ==
    /\ calls[t].pc = "cache_get"
    /\ \E fault \in BOOLEAN :
        LET k == CacheKeyOf(t)
            cached == IF k \in DOMAIN cache THEN cache[k].val ELSE None
            c == calls[t]
            h == [hist[t] EXCEPT !.saw =
                    IF ~fault /\ k \in DOMAIN stored
                    THEN [last |-> stored[k].last, first |-> stored[k].first]
                    ELSE NoSaw]
        IN  IF fault
            THEN Apply(t, LoopNext(c, [h EXCEPT !.cget = "error"], sem[owner[t]], 0))
            ELSE IF Truthy(cached)
            THEN Apply(t, Step([c EXCEPT !.pc = "done", !.result = JsonLoads(cached)],
                               [h EXCEPT !.cget = "hit"], sem[owner[t]]))
            ELSE Apply(t, LoopNext(c, [h EXCEPT !.cget = "miss"], sem[owner[t]], 0))
    /\ UNCHANGED <<config, cache, stored, req>>

\* a waiter of the semaphore is woken once a slot is free (line 64)
Acquire(t) ==
    /\ calls[t].pc = "acquire"
    /\ sem[owner[t]] > 0
    /\ Apply(t, EnterAttempt(calls[t], hist[t], sem[owner[t]], calls[t].attempt))
    /\ UNCHANGED <<config, cache, stored, req>>

\* the HTTP attempt ends (lines 66-71 and 79-89)
HttpReturn(t) ==
    /\ calls[t].pc = "http"
    /\ \E o \in Outcomes :
        LET e == Raised(o)
            c == calls[t]
            h == [hist[t] EXCEPT !.last = o,
                                 !.fails = IF TransientStatus(o) THEN @ + 1 ELSE @]
            s == sem[owner[t]]
        IN  IF e = NoExc
            THEN IF redisOn
                 THEN Apply(t, Step([c EXCEPT !.pc = "cache_set",
                                              !.result = Decode(o.body)], h, s))
                 ELSE Apply(t, Step([c EXCEPT !.pc = "done",
                                              !.result = Decode(o.body)], h, s + 1))
            ELSE IF IsClientError(e)
            THEN Apply(t, HandleClientError(c, h, s + 1, e))
            ELSE Apply(t, Step([c EXCEPT !.pc = "raised"], h, s + 1))
    /\ UNCHANGED <<config, cache, stored, req>>

\* await self._redis.set(...) returns or raises RedisError; return result
\* (lines 73-78)
CacheSetReturn(t) ==
    /\ calls[t].pc = "cache_set"
    /\ \E fault \in BOOLEAN :
        /\ cache' = IF fault THEN cache
                    ELSE [k \in DOMAIN cache \cup {CacheKeyOf(t)} |->
                            IF k = CacheKeyOf(t)
                            THEN [val |-> JsonDumps(calls[t].result),
                                  ttl |-> CacheTtlTicks]
                            ELSE cache[k]]
        /\ stored' = IF fault THEN stored
                     ELSE [k \in DOMAIN stored \cup {CacheKeyOf(t)} |->
                            IF k = CacheKeyOf(t)
                            THEN [last |-> calls[t].result,
                                  first |-> IF k \in DOMAIN stored
                                            THEN stored[k].first
                                            ELSE calls[t].result,
                                  age |-> 0]
                            ELSE stored[k]]
        /\ Apply(t, Step(AfterCacheSet(calls[t], fault),
                         [hist[t] EXCEPT !.cset = IF fault THEN "error" ELSE "ok"],
                         sem[owner[t]] + 1))
    /\ UNCHANGED <<config, req>>

\* await asyncio.sleep(delay) returns; continue (lines 85-86)
Wake(t) ==
    /\ calls[t].pc = "sleep"
    /\ Apply(t, LoopNext(calls[t], hist[t], sem[owner[t]], calls[t].attempt + 1))
    /\ UNCHANGED <<config, cache, stored, req>>

\* time passes in Redis: every entry ages, an entry whose TTL is over goes
Tick ==
    /\ DOMAIN cache # {}
    /\ cache' = [k \in {x \in DOMAIN cache : cache[x].ttl > 1} |->
                    [cache[k] EXCEPT !.ttl = @ - 1]]
    /\ stored' = [k \in {x \in DOMAIN stored : stored[x].age + 1 < CacheTtlTicks} |->
                    [stored[k] EXCEPT !.age = @ + 1]]
    /\ UNCHANGED <<config, sem, calls, hist, req>>

\* the caller has taken the call's result or exception
Finish(t) ==
    /\ calls[t].pc \in {"done", "raised"}
    /\ calls' = [calls EXCEPT ![t] = IdleCall]
    /\ hist' = [hist EXCEPT ![t] = NoHist]
    /\ UNCHANGED <<config, sem, cache, stored, req>>

----------------------------------------------------------------------------
(* A handler of src/main.py that fetches the details of several ids:       *)
(*     tasks = [client.fetch_article_details(pmid) for pmid in pmids]      *)
(*     results = await asyncio.gather(... tasks)                           *)
(*     return [res for res in results if res]                              *)
(* The legs of request r are the coroutines that run on client r, in the   *)
(* order of pmids; the target of a leg's call stands for its pmid.         *)

\* the coroutines 1, 2, ... in order
TaskSeq == [i \in 1..Len(calls) |-> i]

Legs(r) == SelectSeq(TaskSeq, LAMBDA t : owner[t] = r)

\* fetch_article_details returning None
NoArticle == [pmid |-> 0, doc |-> None]

\* Python truth value of what _make_request returned
HasData(x) == x # None /\ x # ""

\* fetch_article_details after _make_request returned xml_data: no data gives
\* None, a document that does not parse gives None (ParseError is caught),
\* a document without a PubmedArticle node gives None, a document with one
\* gives the Article of that pmid
FetchArticleDetails(pmid, xml_data) ==
    IF ~HasData(xml_data) THEN NoArticle
    ELSE IF xml_data = "malformed" THEN NoArticle
    ELSE IF xml_data = "no_article" THEN NoArticle
    ELSE [pmid |-> pmid, doc |-> xml_data]

\* fetch_article_details lets through what _make_request raises: it catches
\* ElementTree.ParseError and ValidationError only
LegRaised(t) == calls[t].pc = "raised"

LegReturned(t) == calls[t].pc = "done"

LegResult(t) == FetchArticleDetails(calls[t].target, calls[t].result)

\* [res for res in results if res]
Present(results) == SelectSeq(results, LAMBDA a : a # NoArticle)

\* gather returns once every leg returned
GatherReturn(r) ==
    /\ req[r].pc = "gather"
    /\ \A i \in 1..Len(Legs(r)) : LegReturned(Legs(r)[i])
    /\ LET results == [i \in 1..Len(Legs(r)) |-> LegResult(Legs(r)[i])]
       IN  req' = [req EXCEPT ![r] = [pc |-> "responded",
                                      response |-> Present(results)]]
    /\ UNCHANGED <<config, sem, cache, calls, hist, stored>>

\* gather (return_exceptions is not set) raises what a leg raised as soon as
\* one did, the handler ends with that exception and the other legs run on
GatherRaise(r) ==
    /\ req[r].pc = "gather"
    /\ \E i \in 1..Len(Legs(r)) : LegRaised(Legs(r)[i])
    /\ req' = [req EXCEPT ![r] = [pc |-> "failed", response |-> << >>]]
    /\ UNCHANGED <<config, sem, cache, calls, hist, stored>>

----------------------------------------------------------------------------
(* get_summaries, from the esummary payload on (lines 123-139).  A JSON    *)
(* object is a function from its keys to its values, a JSON string a       *)
(* string, a JSON null is None.                                            *)

\* dict.get(key, default)
DictGet(d, key, default) == IF key \in DOMAIN d THEN d[key] ELSE default

\* [a.get("name", "") for a in info.get("authors", [])]
AuthorNames(info) ==
    LET authors == DictGet(info, "authors", << >>)
    IN  [i \in 1..Len(authors) |-> DictGet(authors[i], "name", "")]

\* the arguments of ArticleSummary(...) (lines 129-135)
SummaryFields(info) ==
    [pmid |-> DictGet(info, "uid", ""),
     title |-> DictGet(info, "title", "No Title"),
     pub_date |-> DictGet(info, "pubdate", ""),
     journal |-> DictGet(info, "source", ""),
     authors |-> AuthorNames(info)]

\* pydantic's validation of ArticleSummary: four str fields and a List[str]
Validates(f) ==
    /\ f.pmid # None /\ f.title # None /\ f.pub_date # None /\ f.journal # None
    /\ \A i \in 1..Len(f.authors) : f.authors[i] # None

\* the loop with the try around the whole of it: the first record that fails
\* ends it
RECURSIVE SummariesLoopEndsAtFailure(_, _, _)
SummariesLoopEndsAtFailure(result, i, summaries) ==
    LET uids == DictGet(result, "uids", << >>)
    IN  IF i > Len(uids) THEN summaries
        ELSE IF uids[i] \in DOMAIN result /\ Validates(SummaryFields(result[uids[i]]))
        THEN SummariesLoopEndsAtFailure(result, i + 1,
                           Append(summaries, SummaryFields(result[uids[i]])))
        ELSE summaries

\* the loop over result.get("uids", []) from uid number i on, summaries
\* holding what was appended so far
RECURSIVE SummariesLoop(_, _, _)
SummariesLoop(result, i, summaries) ==
    LET uids == DictGet(result, "uids", << >>)
    IN  IF i > Len(uids) THEN summaries
        ELSE IF uids[i] \in DOMAIN result /\ Validates(SummaryFields(result[uids[i]]))
        THEN SummariesLoop(result, i + 1,
                           Append(summaries, SummaryFields(result[uids[i]])))
        ELSE SummariesLoop(result, i + 1, summaries)

GetSummaries(result) == SummariesLoop(result, 1, << >>)

\* get_summaries is applied to the payload
CallGetSummaries ==
    /\ ~ret.done
    /\ ret' = Returned(GetSummaries(arg))
    /\ UNCHANGED <<apiKey, redisOn, asks, owner, arg, op, sem, cache, calls,
                   hist, stored, req>>

----------------------------------------------------------------------------
(* The operations of NCBIClient above _make_request.  An operation runs    *)
(* up to its await of _make_request, which it leaves in one of the three   *)
(* ways _make_request ends: with the failure signal None, with the decoded *)
(* payload, or with an exception (asyncio.TimeoutError, a ValueError of    *)
(* the decoder) that no operation catches.                                 *)

BASE_PARAMS == [db |-> "pubmed"]

EmptyDict == << >>

\* {**d, **e}
Update(d, e) == e @@ d

\* Python truth value of a dict, list or str
NonEmpty(x) == x # << >>

\* data.get("esearchresult", {}).get("idlist", [])
IdList(data) == DictGet(DictGet(data, "esearchresult", EmptyDict), "idlist", << >>)

\* the awaited _make_request has ended: with None, with data, by raising
Got(how, data) == [op EXCEPT !.got = Append(@, [how |-> how, data |-> data])]

\* the operation calls _make_request(url, params) and awaits it
Await(o, pc, endpoint, params) ==
    /\ op' = [o EXCEPT !.pc = pc,
                       !.issued = Append(@, [endpoint |-> endpoint,
                                             params |-> params])]
    /\ UNCHANGED ret

\* the operation returns v
Return(o, v) ==
    /\ ret' = Returned(v)
    /\ op' = [o EXCEPT !.pc = "done"]

\* the operation ends with exception e
Raise(o, e) ==
    /\ op' = [o EXCEPT !.pc = "raised", !.exc = e]
    /\ UNCHANGED ret

\* what the operation was handed: None or the payload
Handed(isNone, data) == Got(IF isNone THEN "None" ELSE "value", data)

GatewayFrame ==
    UNCHANGED <<apiKey, redisOn, asks, owner, arg, sem, cache, calls, hist,
                stored, req>>

AwaitPcs == {"elink", "related_esearch", "esearch", "espell", "esummary", "efetch"}

\* what the awaited _make_request raised goes through the operation
MakeRequestRaises ==
    /\ op.pc \in AwaitPcs
    /\ \E e \in {"TimeoutError", "ValueError"} : Raise(Got("raised", EmptyDict), e)
    /\ GatewayFrame

\* find_related_ids up to its first await (lines 143-144)
FindRelatedIds ==
    /\ arg.name = "find_related_ids"
    /\ op.pc = "idle"
    /\ Await(op, "elink", "elink.fcgi",
             Update(BASE_PARAMS, [id |-> arg.pmid, linkname |-> "pubmed_pubmed",
                                  cmd |-> "neighbor_history"]))
    /\ GatewayFrame

\* linkset["linksetdbs"][0]: the exception of the subscripts, if any
SubscriptError(linkset) ==
    IF "linksetdbs" \notin DOMAIN linkset THEN "KeyError"
    ELSE IF Len(linkset["linksetdbs"]) = 0 THEN "IndexError"
    ELSE ""

\* lines 145-153, data being what phase 1 returned (None included)
AfterElink(isNone, data) ==
    IF isNone \/ ~NonEmpty(data) \/ ~NonEmpty(DictGet(data, "linksets", << >>))
    THEN Return(Handed(isNone, data), << >>)
    ELSE LET linkset == data["linksets"][1]
             webenv == DictGet(linkset, "webenv", None)
         IN  IF SubscriptError(linkset) # ""
             THEN Raise(Handed(isNone, data), SubscriptError(linkset))
             ELSE Await(Handed(isNone, data), "related_esearch", "esearch.fcgi",
                        Update(BASE_PARAMS,
                               [query_key |-> DictGet(linkset["linksetdbs"][1],
                                                      "querykey", None),
                                WebEnv |-> webenv, retmode |-> "json",
                                retmax |-> ToString(arg.max_results)]))

\* line 154, fetch_data being what phase 2 returned (None included)
AfterRelatedEsearch(isNone, fetch_data) ==
    IF isNone \/ ~NonEmpty(fetch_data) THEN Return(Handed(isNone, fetch_data), << >>)
    ELSE Return(Handed(isNone, fetch_data), IdList(fetch_data))

----------------------------------------------------------------------------
(* search_pubmed_ids, check_spelling, get_summaries, fetch_article_details. *)
(* A str the code looks into is a sequence of characters.                   *)

Letters == {"a", "c", "i", "t", "u", "A", "C", "I", "T", "U"}

\* the pattern \[[A-Za-z]{2,4}\] matches at position i of q
TagAt(q, i) ==
    /\ q[i] = "["
    /\ \E n \in 2..4 :
        /\ i + n + 1 <= Len(q)
        /\ \A j \in 1..n : q[i + j] \in Letters
        /\ q[i + n + 1] = "]"

\* re.search(r'\[[A-Za-z]{2,4}\]', query)
ReSearch(q) == \E i \in 1..Len(q) : TagAt(q, i)

\* a variant that appends the field whatever the query holds
FinalQueryAlways(query, search_field) ==
    IF Truthy(search_field) THEN <<"(">> \o query \o <<")">> \o search_field
    ELSE query

\* final_query (line 96)
FinalQuery(query, search_field) ==
    IF Truthy(search_field) /\ ~ReSearch(query)
    THEN <<"(">> \o query \o <<")">> \o search_field
    ELSE query

\* final_query is computed for the query and the field
CallFinalQuery ==
    /\ ~ret.done
    /\ ret' = Returned(FinalQuery(arg.query, arg.search_field))
    /\ UNCHANGED <<apiKey, redisOn, asks, owner, arg, op, sem, cache, calls,
                   hist, stored, req>>

\* lines 97-101
SearchParams(term, max_results, start_date, end_date) ==
    LET p0 == Update(BASE_PARAMS, [term |-> term, retmode |-> "json",
                                   retmax |-> ToString(max_results), sort |-> "date"])
        p1 == IF start_date # None
              THEN Update(p0, [datetype |-> "pdat", mindate |-> start_date]) ELSE p0
    IN  IF end_date # None
        THEN Update(p1, [datetype |-> "pdat", maxdate |-> end_date]) ELSE p1

\* search_pubmed_ids up to its await (lines 96-103)
SearchPubmedIds ==
    /\ arg.name = "search_pubmed_ids"
    /\ op.pc = "idle"
    /\ Await(op, "esearch", "esearch.fcgi",
             SearchParams(FinalQuery(arg.query, arg.search_field), arg.max_results,
                          arg.start_date, arg.end_date))
    /\ GatewayFrame

\* a variant that reads the payload without a test
AfterEsearchUntested(isNone, data) ==
    IF isNone THEN Raise(Handed(isNone, data), "AttributeError")
    ELSE Return(Handed(isNone, data), IdList(data))

\* line 104
AfterEsearch(isNone, data) ==
    IF isNone \/ ~NonEmpty(data) THEN Return(Handed(isNone, data), << >>)
    ELSE Return(Handed(isNone, data), IdList(data))

UpperCase == <<"A", "C", "I", "T", "U">>

LowerCase == <<"a", "c", "i", "t", "u">>

\* str.lower()
Lower(str) ==
    [i \in 1..Len(str) |->
        IF \E k \in 1..Len(UpperCase) : UpperCase[k] = str[i]
        THEN LowerCase[CHOOSE k \in 1..Len(UpperCase) : UpperCase[k] = str[i]]
        ELSE str[i]]

SpellCheckResponse(original_query, corrected_query, has_correction) ==
    [original_query |-> original_query, corrected_query |-> corrected_query,
     has_correction |-> has_correction]

\* check_spelling up to its await (lines 108-109)
CheckSpelling ==
    /\ arg.name = "check_spelling"
    /\ op.pc = "idle"
    /\ Await(op, "espell", "espell.fcgi",
             Update(BASE_PARAMS, [term |-> arg.query, retmode |-> "json"]))
    /\ GatewayFrame

\* lines 110-112
AfterEspell(isNone, data) ==
    IF isNone \/ ~NonEmpty(data)
    THEN Return(Handed(isNone, data), SpellCheckResponse(arg.query, None, FALSE))
    ELSE LET corrected == DictGet(DictGet(data, "es-result", EmptyDict),
                                  "corrected", None)
         IN  Return(Handed(isNone, data),
                    SpellCheckResponse(arg.query, corrected,
                        Truthy(corrected) /\ Lower(corrected) # Lower(arg.query)))

\* sep.join(strs)
RECURSIVE Join(_, _)
Join(sep, strs) ==
    IF Len(strs) = 0 THEN ""
    ELSE IF Len(strs) = 1 THEN strs[1]
    ELSE strs[1] \o sep \o Join(sep, Tail(strs))

\* get_summaries up to its await, or to its end when pmids is empty
\* (lines 116-119)
GetSummariesCall ==
    /\ arg.name = "get_summaries"
    /\ op.pc = "idle"
    /\ IF Len(arg.pmids) = 0 THEN Return(op, << >>)
       ELSE Await(op, "esummary", "esummary.fcgi",
                  Update(BASE_PARAMS, [id |-> Join(",", arg.pmids), retmode |-> "json"]))
    /\ GatewayFrame

\* lines 120-139
AfterEsummary(isNone, data) ==
    IF isNone \/ ~NonEmpty(data) \/ "result" \notin DOMAIN data
    THEN Return(Handed(isNone, data), << >>)
    ELSE Return(Handed(isNone, data), GetSummaries(data["result"]))

\* fetch_article_details up to its await (lines 158-161)
FetchArticleDetailsCall ==
    /\ arg.name = "fetch_article_details"
    /\ op.pc = "idle"
    /\ Await(op, "efetch", "efetch.fcgi",
             Update(BASE_PARAMS, [id |-> arg.pmid, retmode |-> "xml",
                                  rettype |-> "abstract"]))
    /\ GatewayFrame

\* lines 162-215, xml_data being the text _make_request returned
AfterEfetch(isNone, xml_data) ==
    Return(Handed(isNone, xml_data),
           FetchArticleDetails(arg.pmid, IF isNone THEN None ELSE xml_data))

----------------------------------------------------------------------------
(* Article.to_ama_citation (src/schemas.py).  A str is a sequence of       *)
(* characters.                                                             *)

\* sep.join(strs)
RECURSIVE JoinStr(_, _)
JoinStr(sep, strs) ==
    IF Len(strs) = 0 THEN << >>
    ELSE IF Len(strs) = 1 THEN strs[1]
    ELSE strs[1] \o sep \o JoinStr(sep, Tail(strs))

\* str.replace(ch, '')
Remove(str, ch) == SelectSeq(str, LAMBDA c : c # ch)

RECURSIVE LStrip(_)
LStrip(str) ==
    IF Len(str) > 0 /\ Head(str) = " " THEN LStrip(Tail(str)) ELSE str

RECURSIVE RStrip(_)
RStrip(str) ==
    IF Len(str) > 0 /\ str[Len(str)] = " "
    THEN RStrip(SubSeq(str, 1, Len(str) - 1)) ELSE str

\* str.strip()
Strip(str) == RStrip(LStrip(str))

\* str.endswith(ch)
EndsWith(str, ch) == Len(str) > 0 /\ str[Len(str)] = ch

\* lines 26-32
AuthorsStr(authors) ==
    IF Len(authors) = 0 THEN << >>
    ELSE IF Len(authors) > 6
    THEN JoinStr(<<",", " ">>, SubSeq(authors, 1, 3)) \o <<",", " ", "e", "t", " ", "a", "l">>
    ELSE JoinStr(<<",", " ">>, authors)

\* a variant that leaves the title without its period
TitlePartAsIs(title) == Strip(Remove(title, "*"))

\* lines 35-37
TitlePart(title) ==
    LET t == Strip(Remove(title, "*"))
    IN  IF ~EndsWith(t, ".") THEN t \o <<".">> ELSE t

\* line 41
JournalPart(journal) ==
    IF Len(journal) > 0 THEN <<"*">> \o Strip(journal) \o <<"*", ".">> ELSE << >>

\* line 44
YearPart(pub_date) == IF Len(pub_date) > 0 THEN pub_date \o <<";">> ELSE << >>

\* lines 47-55
CitDetails(volume, issue, pages) ==
    LET d1 == IF Truthy(volume) THEN volume ELSE << >>
        d2 == IF Truthy(issue) THEN d1 \o <<"(">> \o issue \o <<")">> ELSE d1
        d3 == IF Truthy(pages) THEN d2 \o <<":">> \o pages ELSE d2
    IN  IF Len(d3) > 0 THEN d3 \o <<".">> ELSE d3

\* lines 59-60
ToAmaCitation(a) ==
    LET all == <<AuthorsStr(a.authors), TitlePart(a.title), JournalPart(a.journal),
                 YearPart(a.pub_date), CitDetails(a.volume, a.issue, a.pages)>>
        parts == SelectSeq(all, LAMBDA part : Len(part) > 0)
    IN  JoinStr(<<" ">>, parts)

\* to_ama_citation is applied to the article
CallToAmaCitation ==
    /\ ~ret.done
    /\ ret' = Returned(ToAmaCitation(arg))
    /\ UNCHANGED <<apiKey, redisOn, asks, owner, arg, op, sem, cache, calls,
                   hist, stored, req>>

----------------------------------------------------------------------------
(* The abstract fetch_article_details builds from the AbstractText nodes   *)
(* (lines 185-197).  A node is its Label attribute (None when it has none) *)
(* and the text "".join(node.itertext()).                                  *)

\* "Abstract not available."
AbstractNotAvailable ==
    <<"A", "b", "s", "t", "r", "a", "c", "t", " ", "n", "o", "t", " ",
      "a", "v", "a", "i", "l", "a", "b", "l", "e", ".">>

\* a variant that skips no node
SkipsNever(node) == FALSE

\* if not full_text: continue
Skips(node) == Len(Strip(node.text)) = 0

\* lines 191-195
AbstractPart(node) ==
    IF Truthy(node.label)
    THEN <<"*", "*">> \o Strip(node.label) \o <<":", "*", "*", " ">> \o Strip(node.text)
    ELSE Strip(node.text)

\* the loop over the nodes from node number i on, abstract_parts holding
\* what was appended so far
RECURSIVE AbstractPartsLoop(_, _, _)
AbstractPartsLoop(nodes, i, abstract_parts) ==
    IF i > Len(nodes) THEN abstract_parts
    ELSE IF Skips(nodes[i]) THEN AbstractPartsLoop(nodes, i + 1, abstract_parts)
    ELSE AbstractPartsLoop(nodes, i + 1, Append(abstract_parts, AbstractPart(nodes[i])))

\* line 197
Abstract(nodes) ==
    LET joined == JoinStr(<<"\n", "\n">>, AbstractPartsLoop(nodes, 1, << >>))
    IN  IF Len(joined) > 0 THEN joined ELSE AbstractNotAvailable

\* the abstract is built from the nodes
CallAbstract ==
    /\ ~ret.done
    /\ ret' = Returned(Abstract(arg))
    /\ UNCHANGED <<apiKey, redisOn, asks, owner, arg, op, sem, cache, calls,
                   hist, stored, req>>

----------------------------------------------------------------------------
(* The process after startup (lifespan): the settings are read, no request *)
(* is in progress, Redis holds nothing.  owners[t] is the NCBIClient that  *)
(* coroutine t runs on; get_ncbi_client builds one NCBIClient, and so one  *)
(* semaphore, for every HTTP request the service handles.                  *)

ProcessInit(owners, tgs, handlers) ==
    /\ apiKey \in BOOLEAN
    /\ redisOn \in BOOLEAN
    /\ asks = tgs
    /\ owner = owners
    /\ sem = [c \in {owners[t] : t \in DOMAIN owners} |-> ConcurrencyLimit(apiKey)]
    /\ cache = << >>
    /\ calls = [t \in DOMAIN owners |-> IdleCall]
    /\ hist = [t \in DOMAIN owners |-> NoHist]
    /\ stored = << >>
    /\ req = [r \in handlers |-> [pc |-> "gather", response |-> << >>]]
    /\ op = IdleOp

InitWith(owners, tgs, handlers) ==
    /\ ProcessInit(owners, tgs, handlers)
    /\ arg = << >>
    /\ ret = NotCalled

----------------------------------------------------------------------------
(* Specification Spec: one caller that invokes _make_request again and     *)
(* again, for any of NumTargets (url, params) pairs, against a Redis whose *)
(* entries expire.                                                         *)

Init == InitWith(<<1>>, <<1..NumTargets>>, {})

Next ==
    \/ \E t \in Tasks : \E tg \in asks[t] : NewCall(t, tg)
    \/ \E t \in Tasks : CacheGetReturn(t)
    \/ \E t \in Tasks : HttpReturn(t)
    \/ \E t \in Tasks : CacheSetReturn(t)
    \/ \E t \in Tasks : Wake(t)
    \/ \E t \in Tasks : Finish(t)
    \/ Tick

Spec == Init /\ [][Next]_vars

----------------------------------------------------------------------------
(* Specification SpecRace: two HTTP requests in progress at once, each on  *)
(* its own NCBIClient, whose _make_request calls ask for the same          *)
(* (url, params) and share the Redis cache.                                *)

InitRace == InitWith(<<1, 2>>, <<{1}, {1}>>, {})

SpecRace == InitRace /\ [][Next]_vars

----------------------------------------------------------------------------
(* Specification SpecGather: one HTTP request whose search returned two    *)
(* ids; its handler gathers one fetch_article_details leg per id, both on  *)
(* the request's NCBIClient.                                               *)

InitGather == InitWith(<<1, 1>>, <<{1}, {2}>>, {1})

NextGather ==
    \/ \E t \in Tasks : \E tg \in asks[t] : NewCall(t, tg)
    \/ \E t \in Tasks : CacheGetReturn(t)
    \/ \E t \in Tasks : HttpReturn(t)
    \/ \E t \in Tasks : CacheSetReturn(t)
    \/ \E t \in Tasks : Wake(t)
    \/ \E r \in DOMAIN req : GatherReturn(r)
    \/ \E r \in DOMAIN req : GatherRaise(r)
    \/ Tick

SpecGather == InitGather /\ [][NextGather]_vars

----------------------------------------------------------------------------
(* Specification SpecLive: SpecGather with the scheduling of the event     *)
(* loop: an await whose operation can complete does complete.  The HTTP    *)
(* attempt ends (ClientTimeout(total=30) bounds it), redis.get and         *)
(* redis.set return or raise, asyncio.sleep returns after its delay.       *)
(* Nothing obliges a caller to start a call.                               *)

\* the two coroutines of InitGather
GatherCalls == {1, 2}

Fairness ==
    \A t \in GatherCalls :
        /\ WF_vars(CacheGetReturn(t))
        /\ WF_vars(HttpReturn(t))
        /\ WF_vars(CacheSetReturn(t))
        /\ WF_vars(Wake(t))

SpecLive == InitGather /\ [][NextGather]_vars /\ Fairness

----------------------------------------------------------------------------
(* Specification SpecProcess: two HTTP requests in progress at once, each  *)
(* of two ids, each on the NCBIClient that get_ncbi_client built for it,   *)
(* in a process that started without Redis (caching disabled).  The        *)
(* specification follows each call to the end of its first attempt: a call *)
(* that was answered 429 or 5xx stays in its backoff sleep.  Its           *)
(* behaviours are behaviours of the process, so a state it reaches is a    *)
(* state the process reaches.                                              *)

InitProcess ==
    /\ InitWith(<<1, 1, 2, 2>>, <<{1}, {2}, {1}, {2}>>, {1, 2})
    /\ ~redisOn

NextProcess ==
    \/ \E t \in Tasks : \E tg \in asks[t] : NewCall(t, tg)
    \/ \E t \in Tasks : HttpReturn(t)
    \/ \E r \in DOMAIN req : GatherReturn(r)
    \/ \E r \in DOMAIN req : GatherRaise(r)

SpecProcess == InitProcess /\ [][NextProcess]_vars

----------------------------------------------------------------------------
(* Specification SpecOrder: search_articles from the ids that               *)
(* search_pubmed_ids returned on (src/main.py lines 122-128;                *)
(* search_and_get_citations, lines 179-190, gathers and filters the same   *)
(* way).  A leg is a fetch_article_details coroutine, taken from the       *)
(* return of its _make_request call on; op.issued holds the ids in the     *)
(* order of the legs, op.got the legs in the order in which they ended.    *)

\* the lists of distinct ids a search returns
IdOrders ==
    {s \in UNION {[1..n -> 1..MaxIds] : n \in 0..MaxIds} :
        \A i \in 1..Len(s) : \A j \in 1..Len(s) : i # j => s[i] # s[j]}

\* what _make_request hands a leg: None, or the text of the efetch answer
LegTexts == {None, "", "full", "no_article", "malformed"}

InitOrder ==
    /\ ProcessInit(<< >>, << >>, {})
    /\ ~apiKey
    /\ ~redisOn
    /\ arg \in {[name |-> "search_articles", pmids |-> ids] : ids \in IdOrders}
    /\ ret = NotCalled

\* the legs that ended
EndedLegs == {op.got[j].data.leg : j \in 1..Len(op.got)}

\* what leg i returned
ResultOfLeg(i) ==
    LET j == CHOOSE j \in 1..Len(op.got) : op.got[j].data.leg = i
    IN  FetchArticleDetails(op.issued[i], op.got[j].data.xml)

\* a variant that lists the results as the legs end
GatherAsCompleted(n) == [j \in 1..n |-> ResultOfLeg(op.got[j].data.leg)]

\* asyncio.gather: the results in the order of the awaitables
Gather(n) == [i \in 1..n |-> ResultOfLeg(i)]

\* lines 122-127: no id gives [], otherwise one leg per id is started, in
\* the order of pmids
SearchArticles ==
    /\ op.pc = "idle"
    /\ IF Len(arg.pmids) = 0
       THEN Return(op, << >>)
       ELSE /\ op' = [op EXCEPT !.pc = "gather", !.issued = arg.pmids]
            /\ UNCHANGED ret
    /\ GatewayFrame

\* a leg that is running returns
LegEnds ==
    /\ op.pc = "gather"
    /\ \E i \in (1..Len(op.issued)) \ EndedLegs : \E xml \in LegTexts :
            op' = Got("returned", [leg |-> i, xml |-> xml])
    /\ UNCHANGED ret
    /\ GatewayFrame

\* a leg that is running raises what its _make_request call raised: gather
\* raises it and the handler ends with it
LegRaises ==
    /\ op.pc = "gather"
    /\ \E i \in (1..Len(op.issued)) \ EndedLegs :
        \E e \in {"TimeoutError", "ValueError"} : Raise(op, e)
    /\ GatewayFrame

\* every leg returned: gather returns and the handler responds (line 128)
GatherResults ==
    /\ op.pc = "gather"
    /\ EndedLegs = 1..Len(op.issued)
    /\ Return(op, Present(Gather(Len(op.issued))))
    /\ GatewayFrame

NextOrder ==
    \/ SearchArticles
    \/ LegEnds
    \/ LegRaises
    \/ GatherResults

SpecOrder == InitOrder /\ [][NextOrder]_vars

----------------------------------------------------------------------------
(* Specification SpecGate: one HTTP request whose search returned four     *)
(* ids, so that its four _make_request calls run on one NCBIClient, in a   *)
(* process that started without Redis.  Without a credential the client    *)
(* has three slots and the fourth call waits.  At most MaxRetrying of the  *)
(* calls are followed past their first attempt; the others stay in their   *)
(* backoff sleep.                                                          *)

InitGate ==
    /\ InitWith(<<1, 1, 1, 1>>, <<{1}, {1}, {1}, {1}>>, {})
    /\ ~redisOn

\* the calls that went past their first attempt
Retrying == {t \in Tasks : calls[t].attempt > 0}

NextGate ==
    \/ \E t \in Tasks : \E tg \in asks[t] : NewCall(t, tg)
    \/ \E t \in Tasks : Acquire(t)
    \/ \E t \in Tasks : HttpReturn(t)
    \/ \E t \in Tasks : Cardinality(Retrying \cup {t}) <= MaxRetrying /\ Wake(t)

SpecGate == InitGate /\ [][NextGate]_vars

----------------------------------------------------------------------------
(* Specification SpecSummaries: get_summaries applied to an esummary       *)
(* payload that lists up to MaxRecords uids.  The record of a uid is       *)
(* complete, lacks one of its five fields, has a null title or a null      *)
(* author name, or is not in the payload at all.                           *)

UidNames == <<"101", "102", "103", "104", "105", "106">>

RecordFields == {"uid", "title", "pubdate", "source", "authors"}

Shapes == {"ok", "no_uid", "no_title", "no_pubdate", "no_source", "no_authors",
           "null_title", "null_author", "absent"}

FullRecord(i) ==
    [uid |-> UidNames[i], title |-> "Title", pubdate |-> "2020", source |-> "J",
     authors |-> <<[name |-> "Doe J"]>>]

Without(info, key) == [k \in DOMAIN info \ {key} |-> info[k]]

RecordOf(i, shape) ==
    CASE shape = "ok"         -> FullRecord(i)
      [] shape = "no_uid"     -> Without(FullRecord(i), "uid")
      [] shape = "no_title"   -> Without(FullRecord(i), "title")
      [] shape = "no_pubdate" -> Without(FullRecord(i), "pubdate")
      [] shape = "no_source"  -> Without(FullRecord(i), "source")
      [] shape = "no_authors" -> Without(FullRecord(i), "authors")
      [] shape = "null_title" -> [FullRecord(i) EXCEPT !.title = None]
      [] shape = "null_author" ->
            [FullRecord(i) EXCEPT !.authors = <<[name |-> None]>>]

\* data["result"] for a sequence of shapes, one per listed uid
Payload(shapes) ==
    LET n == Len(shapes)
        listed == {UidNames[i] : i \in {j \in 1..n : shapes[j] # "absent"}}
        index(u) == CHOOSE i \in 1..n : UidNames[i] = u
    IN  [k \in {"uids"} \cup listed |->
            IF k = "uids" THEN [i \in 1..n |-> UidNames[i]]
            ELSE RecordOf(index(k), shapes[index(k)])]

ShapeSeqs == UNION {[1..n -> Shapes] : n \in 0..MaxRecords}

InitSummaries ==
    /\ ProcessInit(<< >>, << >>, {})
    /\ ~apiKey
    /\ ~redisOn
    /\ arg \in {Payload(shapes) : shapes \in ShapeSeqs}
    /\ ret = NotCalled

NextSummaries == CallGetSummaries

SpecSummaries == InitSummaries /\ [][NextSummaries]_vars

----------------------------------------------------------------------------
(* Specification SpecGateway: one operation of NCBIClient is invoked and   *)
(* runs to its end, every _make_request it awaits ending in any of the     *)
(* ways it can end and with any payload of its endpoint.                   *)

Pmids == {"101"}

MaxResultsValues == {1, 10}

IdLists == {<< >>, <<"201">>, <<"201", "202">>}

\* linksets[0] of an elink answer: with a result set, without linksetdbs
\* (the id has no neighbours), with an empty linksetdbs, without a query
\* key, without a session token
Linksets ==
    {[dbfrom |-> "pubmed", webenv |-> "MCID_1",
      linksetdbs |-> <<[linkname |-> "pubmed_pubmed", querykey |-> "1"]>>],
     [dbfrom |-> "pubmed", webenv |-> "MCID_1"],
     [dbfrom |-> "pubmed", webenv |-> "MCID_1", linksetdbs |-> << >>],
     [dbfrom |-> "pubmed", webenv |-> "MCID_1",
      linksetdbs |-> <<[linkname |-> "pubmed_pubmed"]>>],
     [dbfrom |-> "pubmed",
      linksetdbs |-> <<[linkname |-> "pubmed_pubmed", querykey |-> "1"]>>]}

ElinkPayloads ==
    {EmptyDict, [header |-> "elink"], [header |-> "elink", linksets |-> << >>]}
    \cup {[header |-> "elink", linksets |-> <<ls>>] : ls \in Linksets}

EsearchPayloads ==
    {EmptyDict, [header |-> "esearch"],
     [header |-> "esearch", esearchresult |-> [count |-> "0"]]}
    \cup {[header |-> "esearch", esearchresult |-> [count |-> "2", idlist |-> ids]] :
            ids \in IdLists}

\* what es-result.corrected may hold
Corrections == {<< >>, <<"c">>, <<"C">>, <<"t">>}

EspellPayloads ==
    {EmptyDict, [header |-> "espell"], "es-result" :> [query |-> <<"c">>]}
    \cup {"es-result" :> [query |-> <<"c">>, corrected |-> c] : c \in Corrections}

EsummaryPayloads ==
    {EmptyDict, [header |-> "esummary"]}
    \cup {[header |-> "esummary", result |-> Payload(shapes)] :
            shapes \in {<< >>, <<"ok">>, <<"no_title", "null_title">>}}

\* texts efetch may answer with: an empty one, a document with a
\* PubmedArticle node, one without, one that is not well-formed
EfetchTexts == {"", "full", "no_article", "malformed"}

SearchQueries == {<<"c">>, <<"[", "T", "I", "]">>}

Dates == {None, "2020/01/01"}

\* search_field when it is given (when it is not, it is None)
FieldTags == {<<"[", "A", "U", "]">>}

SearchCalls(f) ==
    {[name |-> "search_pubmed_ids", query |-> q, search_field |-> f,
      max_results |-> m, start_date |-> d1, end_date |-> d2] :
        q \in SearchQueries, m \in MaxResultsValues, d1 \in Dates, d2 \in Dates}

PmidLists == {<< >>, <<"101">>, <<"101", "102">>}

GatewayCalls ==
    {[name |-> "find_related_ids", pmid |-> p, max_results |-> m] :
        p \in Pmids, m \in MaxResultsValues}
    \cup SearchCalls(None)
    \cup {[name |-> "check_spelling", query |-> q] : q \in {<<"c">>, <<"C">>}}
    \cup {[name |-> "get_summaries", pmids |-> ids] : ids \in PmidLists}
    \cup {[name |-> "fetch_article_details", pmid |-> p] : p \in Pmids}

InitGateway ==
    /\ ProcessInit(<< >>, << >>, {})
    /\ ~apiKey
    /\ ~redisOn
    /\ \/ arg \in GatewayCalls
       \/ \E f \in FieldTags : arg \in SearchCalls(f)
    /\ ret = NotCalled

\* the elink call of find_related_ids ends
ElinkReturn ==
    /\ op.pc = "elink"
    /\ \/ AfterElink(TRUE, EmptyDict)
       \/ \E data \in ElinkPayloads : AfterElink(FALSE, data)
    /\ GatewayFrame

\* the esearch call of find_related_ids ends
RelatedEsearchReturn ==
    /\ op.pc = "related_esearch"
    /\ \/ AfterRelatedEsearch(TRUE, EmptyDict)
       \/ \E data \in EsearchPayloads : AfterRelatedEsearch(FALSE, data)
    /\ GatewayFrame

\* the esearch call of search_pubmed_ids ends
EsearchReturn ==
    /\ op.pc = "esearch"
    /\ \/ AfterEsearch(TRUE, EmptyDict)
       \/ \E data \in EsearchPayloads : AfterEsearch(FALSE, data)
    /\ GatewayFrame

\* the espell call of check_spelling ends
EspellReturn ==
    /\ op.pc = "espell"
    /\ \/ AfterEspell(TRUE, EmptyDict)
       \/ \E data \in EspellPayloads : AfterEspell(FALSE, data)
    /\ GatewayFrame

\* the esummary call of get_summaries ends
EsummaryReturn ==
    /\ op.pc = "esummary"
    /\ \/ AfterEsummary(TRUE, EmptyDict)
       \/ \E data \in EsummaryPayloads : AfterEsummary(FALSE, data)
    /\ GatewayFrame

\* the efetch call of fetch_article_details ends
EfetchReturn ==
    /\ op.pc = "efetch"
    /\ \/ AfterEfetch(TRUE, "")
       \/ \E text \in EfetchTexts : AfterEfetch(FALSE, text)
    /\ GatewayFrame

NextGateway ==
    \/ FindRelatedIds
    \/ ElinkReturn
    \/ RelatedEsearchReturn
    \/ SearchPubmedIds
    \/ EsearchReturn
    \/ CheckSpelling
    \/ EspellReturn
    \/ GetSummariesCall
    \/ EsummaryReturn
    \/ FetchArticleDetailsCall
    \/ EfetchReturn
    \/ MakeRequestRaises

SpecGateway == InitGateway /\ [][NextGateway]_vars

----------------------------------------------------------------------------
(* Specification SpecTerm: the term search_pubmed_ids builds, for every    *)
(* query of up to MaxQueryLen characters (a bracket, a letter, a digit)    *)
(* and a search_field that is None or a field tag, as the handlers of      *)
(* main.py pass it.                                                        *)

QueryChars == {"[", "]", "c", "1"}

Queries == UNION {[1..n -> QueryChars] : n \in 0..MaxQueryLen}

InitTerm ==
    /\ ProcessInit(<< >>, << >>, {})
    /\ ~apiKey
    /\ ~redisOn
    /\ \/ arg \in {[query |-> q, search_field |-> None] : q \in Queries}
       \/ arg \in {[query |-> q, search_field |-> f] : q \in Queries, f \in FieldTags}
    /\ ret = NotCalled

NextTerm == CallFinalQuery

SpecTerm == InitTerm /\ [][NextTerm]_vars

----------------------------------------------------------------------------
(* Specification SpecCitation: to_ama_citation applied to an Article with  *)
(* up to MaxAuthors authors, a title of up to MaxTitleLen characters (or   *)
(* "Foo"), a journal and a year that are empty or not, and a volume, an    *)
(* issue and pages that are None or not.                                   *)

AuthorPool == <<"A", "B", "C", "D", "E", "F", "G", "H">>

TitleChars == {"F", "*", ".", " "}

Titles ==
    UNION {[1..n -> TitleChars] : n \in 0..MaxTitleLen} \cup {<<"F", "o", "o">>}

Optional(present, str) == IF present THEN str ELSE None

InitCitation ==
    /\ ProcessInit(<< >>, << >>, {})
    /\ ~apiKey
    /\ ~redisOn
    /\ \E n \in 0..MaxAuthors, t \in Titles,
          j \in {<< >>, <<"J">>}, y \in {<< >>, <<"2", "0", "2", "0">>},
          v \in {<< >>, <<"5">>}, hasV \in BOOLEAN, hasI \in BOOLEAN, hasP \in BOOLEAN :
            arg = [authors |-> [i \in 1..n |-> <<AuthorPool[i]>>],
                   title |-> t, journal |-> j, pub_date |-> y,
                   volume |-> Optional(hasV, v),
                   issue |-> Optional(hasI, <<"2">>),
                   pages |-> Optional(hasP, <<"1", "0", "-", "2", "0">>)]
    /\ ret = NotCalled

NextCitation == CallToAmaCitation

SpecCitation == InitCitation /\ [][NextCitation]_vars

----------------------------------------------------------------------------
(* Specification SpecAbstract: the abstract of an article with up to       *)
(* MaxSections AbstractText nodes, each with no Label or with one that is *)
(* empty, blank, plain or with blanks around it, and with a text that is   *)
(* empty, blank, plain or with blanks around it.                           *)

SectionTexts == {<< >>, <<" ">>, <<"X">>, <<" ", "Y", " ">>}

SectionLabels == {<< >>, <<" ">>, <<"M">>, <<" ", "R", " ">>}

InitAbstract ==
    /\ ProcessInit(<< >>, << >>, {})
    /\ ~apiKey
    /\ ~redisOn
    /\ \E n \in 0..MaxSections :
        \E labelled \in [1..n -> BOOLEAN], labels \in [1..n -> SectionLabels],
           texts \in [1..n -> SectionTexts] :
            arg = [i \in 1..n |-> [label |-> Optional(labelled[i], labels[i]),
                                   text |-> texts[i]]]
    /\ ret = NotCalled

NextAbstract == CallAbstract

SpecAbstract == InitAbstract /\ [][NextAbstract]_vars

----------------------------------------------------------------------------
(* Properties of one _make_request call, checked under Spec *)

Ended(t) == calls[t].pc \in {"done", "raised"}

\* the call went to the network: it did not return from the cache
WentToNetwork(t) == calls[t].pc = "done" /\ hist[t].cget # "hit"

\* an HTTP error status that is neither 429 nor >= 500
FatalStatus(o) ==
    o.kind = "response" /\ o.status >= 400 /\ ~TransientStatus(o)

\* a 2xx response whose body decodes
GoodResponse(o) ==
    o.kind = "response" /\ o.status < 400 /\ o.body \in {Wire(v) : v \in Values}

StrictlyIncreasing(q) ==
    \A i \in 1..Len(q) : \A j \in 1..Len(q) : i < j => q[i] < q[j]

Min(a, b) == IF a < b THEN a ELSE b

\* C2: _make_request never lets an exception escape: whatever the HTTP
\* attempts and the cache read end with, the call ends by returning a result
\* or None.
C2_NeverRaises == \A t \in Tasks : calls[t].pc # "raised"

\* C3: when every HTTP attempt of a call fails with status 429 or >= 500, the
\* call makes exactly MAX_RETRIES (4) attempts and returns None; no call ever
\* makes a fifth attempt.
C3_TransientExhaustion ==
    \A t \in Tasks :
        /\ hist[t].gets <= MAX_RETRIES
        /\ (WentToNetwork(t) /\ hist[t].fails = hist[t].gets)
              => (hist[t].gets = MAX_RETRIES /\ calls[t].result = None)

C3_Witness ==
    \E t \in Tasks :
        /\ WentToNetwork(t)
        /\ hist[t].fails = MAX_RETRIES
        /\ hist[t].gets = MAX_RETRIES
        /\ calls[t].result = None

\* C4: a transport-level failure of an attempt (connection error or timeout)
\* is transient: a call does not end on one while fewer than MAX_RETRIES
\* attempts have been made, it waits the backoff delay and tries again.
C4_TransportRetried ==
    \A t \in Tasks :
        (Ended(t) /\ hist[t].last.kind \in {"transport", "timeout"})
            => hist[t].gets = MAX_RETRIES

\* C5: when an attempt fails with an HTTP error status that is neither 429
\* nor >= 500, the call returns None after that attempt, whatever its number:
\* no backoff delay follows it and no further attempt is made.
C5_FatalStatusEndsCall ==
    \A t \in Tasks :
        FatalStatus(hist[t].last)
            => /\ calls[t].pc = "done"
               /\ calls[t].result = None
               /\ hist[t].gets = hist[t].fails + 1
               /\ Len(hist[t].delays) = hist[t].fails

C5_Witness ==
    \E t \in Tasks :
        /\ FatalStatus(hist[t].last)
        /\ hist[t].gets = 3
        /\ calls[t].pc = "done"

\* C6: after k <= 3 responses with status 429 or >= 500 followed by a 2xx
\* response, the call returns the decoded body of the 2xx response and has
\* performed exactly k backoff delays, each strictly longer than the one
\* before; for any number of failures the number of delays is
\* min(failures, MAX_RETRIES - 1).
C6_RetryThenSuccess ==
    \A t \in Tasks :
        /\ Len(hist[t].delays) = Min(hist[t].fails, MAX_RETRIES - 1)
        /\ StrictlyIncreasing(hist[t].delays)
        /\ (calls[t].pc = "done" /\ GoodResponse(hist[t].last))
              => /\ calls[t].result = Decode(hist[t].last.body)
                 /\ hist[t].fails <= MAX_RETRIES - 1
                 /\ hist[t].gets = hist[t].fails + 1
                 /\ Len(hist[t].delays) = hist[t].fails

C6_Witness ==
    \E t \in Tasks :
        /\ calls[t].pc = "done"
        /\ GoodResponse(hist[t].last)
        /\ hist[t].fails = MAX_RETRIES - 1
        /\ Len(hist[t].delays) = MAX_RETRIES - 1
        /\ calls[t].result \in Values

\* what the upstream responses alone give: the decoded body of a good
\* response, None after a failure that is caught
UpstreamResult(h) ==
    IF GoodResponse(h.last) THEN Decode(h.last.body) ELSE None

\* C8: a cache backend error never changes the outcome of a call: when the
\* cache read fails the call goes to the network as on a miss; when the cache
\* write fails after a 2xx response the call still returns that response's
\* result; with no cache configured every call goes to the network and
\* nothing is written.  In every such case the value returned is the one the
\* upstream responses give with a working cache that misses.
C8_CacheErrorsHarmless ==
    /\ \A t \in Tasks :
          WentToNetwork(t)
            => /\ hist[t].gets >= 1
               /\ calls[t].result = UpstreamResult(hist[t])
    /\ ~redisOn
         => /\ cache = << >>
            /\ \A t \in Tasks : hist[t].cget = "none" /\ hist[t].cset = "none"

C8_Witness ==
    \E t \in Tasks :
        /\ calls[t].pc = "done"
        /\ hist[t].cget = "error"
        /\ hist[t].cset = "error"
        /\ calls[t].result \in Values

----------------------------------------------------------------------------
(* The cache round trip, checked under SpecRace *)

\* the cache read of call t returned without a backend error
CacheAnswered(t) == hist[t].cget \in {"hit", "miss"}

\* C7 as claimed: a call made after a call for the same (url, params) returned
\* successfully, and before the TTL elapsed, returns a value equal to that
\* first result.
C7_HitReturnsFirstResult ==
    \A t \in Tasks :
        (CacheAnswered(t) /\ hist[t].saw # NoSaw)
            => /\ hist[t].cget = "hit"
               /\ calls[t].result = hist[t].saw.first

\* C7, amended: with a working cache, a call made after calls for the same
\* (url, params) stored their results, less than a TTL after the last write,
\* returns a value equal to the result stored last and issues no HTTP request
\* (so takes no slot); a call made when no result was stored for a TTL or
\* more goes to the network.
C7_CacheRoundTrip ==
    \A t \in Tasks :
        CacheAnswered(t)
            => IF hist[t].saw # NoSaw
               THEN /\ hist[t].cget = "hit"
                    /\ calls[t].pc = "done"
                    /\ calls[t].result = hist[t].saw.last
                    /\ hist[t].gets = 0
               ELSE /\ hist[t].cget = "miss"
                    /\ calls[t].pc # "cache_get"
                    /\ (hist[t].gets >= 1 \/ calls[t].pc = "acquire")

\* a call returned from the cache a value that an earlier call got from the
\* network, while the other caller is idle
C7_Witness ==
    \E t \in Tasks :
        /\ hist[t].cget = "hit"
        /\ calls[t].pc = "done"
        /\ calls[t].result \in Values
        /\ calls[t].result = hist[t].saw.first
        /\ hist[t].gets = 0

----------------------------------------------------------------------------
(* Properties of the handlers *)

\* the articles of the legs of request r that succeeded, in the order of pmids
ArticlesOfGoodLegs(r) ==
    LET good == SelectSeq(Legs(r), LAMBDA t :
                    calls[t].pc = "done" /\ calls[t].result = "full")
    IN  [i \in 1..Len(good) |-> [pmid |-> calls[good[i]].target, doc |-> "full"]]

\* C9: in a request of several ids the failure of one detail-fetch leg,
\* whatever its cause, never fails the request: the handler responds, and its
\* response holds exactly the articles of the legs that succeeded.
C9_LegFailureIsolated ==
    \A r \in DOMAIN req :
        /\ req[r].pc # "failed"
        /\ req[r].pc = "responded" => req[r].response = ArticlesOfGoodLegs(r)

\* the upstream GETs in progress in the whole process
GetsInProgress == {t \in Tasks : calls[t].pc = "http"}

\* C1: across all requests in progress, the number of upstream HTTP GETs
\* executing at once never exceeds the gate size (10 with a credential, 3
\* without): the gate is shared by all requests.
C1_ProcessWideGate == Cardinality(GetsInProgress) <= ConcurrencyLimit(apiKey)

----------------------------------------------------------------------------
(* Properties of get_summaries, checked under SpecSummaries *)

ListedUids == arg["uids"]

HasRecord(u) == u \in DOMAIN arg

LacksRequiredField(u) == HasRecord(u) /\ DOMAIN arg[u] # RecordFields

HasNull(u) ==
    /\ HasRecord(u)
    /\ \/ \E f \in (DOMAIN arg[u]) \ {"authors"} : arg[u][f] = None
       \/ /\ "authors" \in DOMAIN arg[u]
          /\ \E i \in 1..Len(arg[u]["authors"]) :
                /\ "name" \in DOMAIN arg[u]["authors"][i]
                /\ arg[u]["authors"][i]["name"] = None

\* the record has all five fields, each of its type
WellFormed(u) == HasRecord(u) /\ ~LacksRequiredField(u) /\ ~HasNull(u)

\* the summary of the record of uid u, a field the record lacks taking its
\* default
SummaryWithDefaults(u) ==
    LET info == arg[u]
        names == IF "authors" \in DOMAIN info THEN info["authors"] ELSE << >>
    IN  [pmid |-> IF "uid" \in DOMAIN info THEN info["uid"] ELSE "",
         title |-> IF "title" \in DOMAIN info THEN info["title"] ELSE "No Title",
         pub_date |-> IF "pubdate" \in DOMAIN info THEN info["pubdate"] ELSE "",
         journal |-> IF "source" \in DOMAIN info THEN info["source"] ELSE "",
         authors |-> [i \in 1..Len(names) |->
                        IF "name" \in DOMAIN names[i] THEN names[i]["name"]
                        ELSE ""]]

Count(q, P(_)) == Cardinality({i \in 1..Len(q) : P(q[i])})

Dropped(u) == ~HasRecord(u) \/ HasNull(u)

Kept(u) == ~Dropped(u)

----------------------------------------------------------------------------
(* Properties of find_related_ids, checked under SpecGateway *)

\* phase 1 handed find_related_ids a payload with a non-empty linksets list
Phase1GaveLinksets ==
    /\ Len(op.got) >= 1
    /\ op.got[1].how = "value"
    /\ "linksets" \in DOMAIN op.got[1].data
    /\ Len(op.got[1].data["linksets"]) > 0

\* C11: find_related_ids issues the phase-2 esearch call only after the
\* phase-1 elink call returned a non-empty linksets list; when phase 1 has
\* failed or its response has no linksets, find_related_ids has returned the
\* empty list and has issued no phase-2 call
C11_TwoPhaseOrder ==
    arg.name = "find_related_ids"
    => /\ Len(op.issued) >= 1 => op.issued[1].endpoint = "elink.fcgi"
       /\ Len(op.issued) >= 2
            => op.issued[2].endpoint = "esearch.fcgi" /\ Phase1GaveLinksets
       /\ (Len(op.got) >= 1 /\ ~Phase1GaveLinksets)
            => ret = Returned(<< >>) /\ Len(op.issued) = 1

\* the first linkset of phase 1 has no linksetdbs key, an empty linksetdbs
\* list, or lacks the query handle or the session token
IntermediateMissing ==
    /\ Phase1GaveLinksets
    /\ LET linkset == op.got[1].data["linksets"][1]
       IN  \/ "linksetdbs" \notin DOMAIN linkset
           \/ Len(linkset["linksetdbs"]) = 0
           \/ "querykey" \notin DOMAIN linkset["linksetdbs"][1]
           \/ "webenv" \notin DOMAIN linkset

\* C12: when the first linkset of the phase-1 response has a missing or
\* empty intermediate result, find_related_ids raises nothing and what it
\* returns is the empty list
C12_MissingIntermediateGivesEmpty ==
    (arg.name = "find_related_ids" /\ IntermediateMissing)
    => /\ op.pc # "raised"
       /\ ret.done => ret.value = << >>

----------------------------------------------------------------------------
(* Properties of the five operations, checked under SpecGateway *)

\* the _make_request call the operation awaited last returned None
LastFetchFailed ==
    Len(op.got) >= 1 /\ op.got[Len(op.got)].how = "None"

\* the empty value of the operation
EmptyValue ==
    CASE arg.name = "check_spelling" ->
            [original_query |-> arg.query, corrected_query |-> None,
             has_correction |-> FALSE]
      [] arg.name = "fetch_article_details" -> NoArticle
      [] OTHER -> << >>

\* C13: an operation whose _make_request call returned the failure signal
\* None has returned its empty value and has raised nothing: [] for
\* search_pubmed_ids, get_summaries and find_related_ids (in either phase),
\* no correction for check_spelling, no article for fetch_article_details
C13_FailedFetchGivesEmpty ==
    LastFetchFailed => op.pc = "done" /\ ret = Returned(EmptyValue)

\* find_related_ids after its second call returned None
C13_Witness ==
    /\ arg.name = "find_related_ids"
    /\ Len(op.got) = 2
    /\ LastFetchFailed
    /\ ret.done

----------------------------------------------------------------------------
(* Properties of the search term, checked under SpecTerm *)

\* the query holds a bracketed field tag: '[', 2 to 4 letters, ']'
HasFieldTag(q) ==
    \E i \in 1..Len(q), j \in 1..Len(q) :
        /\ q[i] = "[" /\ q[j] = "]"
        /\ j - i - 1 \in 2..4
        /\ \A k \in (i + 1)..(j - 1) : q[k] \in Letters

FieldGiven == arg.search_field # None

\* C14: the term is "(query)field" exactly when a field is given and the
\* query holds no bracketed field tag, and the unchanged query otherwise
C14_TermBuilt ==
    ret.done
    => IF FieldGiven /\ ~HasFieldTag(arg.query)
       THEN ret.value = <<"(">> \o arg.query \o <<")">> \o arg.search_field
       ELSE ret.value = arg.query

\* query "c" with field "[AU]" has given "(c)[AU]"
C14_Witness ==
    /\ ret.done
    /\ arg.query = <<"c">>
    /\ FieldGiven
    /\ ret.value = <<"(", "c", ")", "[", "A", "U", "]">>

----------------------------------------------------------------------------
(* Properties of to_ama_citation, checked under SpecCitation *)

\* authors A to G, title "Foo", journal "J", year "2020", volume "5",
\* issue "2", pages "10-20"
ExampleArticle ==
    /\ arg.authors = <<<<"A">>, <<"B">>, <<"C">>, <<"D">>, <<"E">>, <<"F">>, <<"G">>>>
    /\ arg.title = <<"F", "o", "o">>
    /\ arg.journal = <<"J">>
    /\ arg.pub_date = <<"2", "0", "2", "0">>
    /\ Truthy(arg.volume) /\ arg.volume = <<"5">>
    /\ Truthy(arg.issue) /\ arg.issue = <<"2">>
    /\ Truthy(arg.pages) /\ arg.pages = <<"1", "0", "-", "2", "0">>

\* C15: for the example article the citation is exactly
\* "A, B, C, et al Foo. *J*. 2020;5(2):10-20."
C15_ExampleCitation ==
    (ret.done /\ ExampleArticle)
    => ret.value = <<"A", ",", " ", "B", ",", " ", "C", ",", " ", "e", "t", " ",
                     "a", "l", " ", "F", "o", "o", ".", " ", "*", "J", "*", ".",
                     " ", "2", "0", "2", "0", ";", "5", "(", "2", ")", ":",
                     "1", "0", "-", "2", "0", ".">>

\* the citation is the title part alone: no authors, journal, year, volume,
\* issue or pages
OnlyTitle ==
    /\ Len(arg.authors) = 0 /\ Len(arg.journal) = 0 /\ Len(arg.pub_date) = 0
    /\ ~Truthy(arg.volume) /\ ~Truthy(arg.issue) /\ ~Truthy(arg.pages)

\* trailing periods of str
RECURSIVE TrailingPeriods(_)
TrailingPeriods(str) ==
    IF Len(str) > 0 /\ str[Len(str)] = "."
    THEN 1 + TrailingPeriods(SubSeq(str, 1, Len(str) - 1)) ELSE 0

NoStar(str) == \A i \in 1..Len(str) : str[i] # "*"

\* C16 as claimed: the title part has no '*' and ends with exactly one
\* period, whatever the title
C16_ExactlyOnePeriod ==
    (ret.done /\ OnlyTitle)
    => NoStar(ret.value) /\ TrailingPeriods(ret.value) = 1

\* the title without its '*' characters and without the blanks around what
\* is left
CleanTitle ==
    LET t == SelectSeq(arg.title, LAMBDA c : c # "*")
        inked == {i \in 1..Len(t) : t[i] # " "}
    IN  IF inked = {} THEN << >>
        ELSE SubSeq(t, CHOOSE i \in inked : \A k \in inked : i <= k,
                       CHOOSE j \in inked : \A k \in inked : k <= j)

\* C16 as amended: the title part has no '*' and ends with a period: a
\* title that, cleaned, has no trailing period gains one, and a title that
\* has trailing periods keeps them all
C16_EndsWithPeriod ==
    (ret.done /\ OnlyTitle)
    => /\ NoStar(ret.value)
       /\ TrailingPeriods(ret.value) >= 1
       /\ TrailingPeriods(ret.value) =
            IF TrailingPeriods(CleanTitle) = 0 THEN 1 ELSE TrailingPeriods(CleanTitle)
       /\ ret.value = IF TrailingPeriods(CleanTitle) = 0
                      THEN CleanTitle \o <<".">> ELSE CleanTitle

\* the title "F.." has been formatted as "F.."
C16_Witness ==
    /\ ret.done
    /\ OnlyTitle
    /\ arg.title = <<"F", ".", ".">>
    /\ ret.value = <<"F", ".", ".">>

----------------------------------------------------------------------------
(* Properties of the abstract, checked under SpecAbstract *)

\* str without the blanks around it
Trimmed(str) ==
    LET inked == {i \in 1..Len(str) : str[i] # " "}
    IN  IF inked = {} THEN << >>
        ELSE SubSeq(str, CHOOSE i \in inked : \A k \in inked : i <= k,
                         CHOOSE j \in inked : \A k \in inked : k <= j)

HasText(node) == Trimmed(node.text) # << >>

Labeled(node) == Truthy(node.label)

\* "**Label:** text" of a labeled section, the bare text of another one
Rendered(node) ==
    IF Labeled(node)
    THEN <<"*", "*">> \o Trimmed(node.label) \o <<":", "*", "*", " ">>
            \o Trimmed(node.text)
    ELSE Trimmed(node.text)

\* the sections from number i on, a blank line before each but the first
RECURSIVE WithBlankLines(_, _)
WithBlankLines(sections, i) ==
    IF i > Len(sections) THEN << >>
    ELSE (IF i > 1 THEN <<"\n", "\n">> ELSE << >>)
            \o Rendered(sections[i]) \o WithBlankLines(sections, i + 1)

\* C17: the abstract is the sections with a non-empty trimmed text, in
\* document order, each as "**Label:** text" when labeled (label and text
\* trimmed) and as the bare text otherwise, joined by a blank line; with no
\* such section it is "Abstract not available."
C17_AbstractAssembled ==
    ret.done
    => LET sections == SelectSeq(arg, HasText)
       IN  ret.value = IF Len(sections) = 0 THEN AbstractNotAvailable
                       ELSE WithBlankLines(sections, 1)

\* section "M" with text "X", then an unlabeled " Y ": "**M:** X\n\nY"
C17_Witness ==
    /\ ret.done
    /\ Len(arg) = 2
    /\ Labeled(arg[1]) /\ arg[1].label = <<"M">> /\ arg[1].text = <<"X">>
    /\ ~Labeled(arg[2]) /\ arg[2].text = <<" ", "Y", " ">>
    /\ ret.value = <<"*", "*", "M", ":", "*", "*", " ", "X", "\n", "\n", "Y">>

----------------------------------------------------------------------------
(* The backoff delays, checked under Spec *)

\* C18: the delay taken after failed attempt number n (from 0) is
\* RETRY_DELAY x 2^n seconds: 2, 4 and 8
C18_DelayIsBaseTimesPowerOfTwo ==
    \A t \in Tasks :
        \A i \in 1..Len(hist[t].delays) :
            hist[t].delays[i] = RETRY_DELAY * Pow(2, i - 1)

----------------------------------------------------------------------------
(* The gate of one client, checked under SpecGather *)

\* the calls of client c that are inside async with self._semaphore: in an
\* HTTP attempt or in the cache write that follows its success
HoldingSlot(c) ==
    {t \in Tasks : owner[t] = c /\ calls[t].pc \in {"http", "cache_set"}}

\* C19: a call holds a slot exactly while one of its HTTP attempts, or the
\* cache write after its success, is in progress: every end of an attempt
\* has released it, a call in its backoff delay holds none, and every
\* attempt takes a slot anew
C19_SlotPerAttempt ==
    \A c \in DOMAIN sem :
        /\ sem[c] = ConcurrencyLimit(apiKey) - Cardinality(HoldingSlot(c))
        /\ \A t \in Tasks :
            (owner[t] = c /\ calls[t].pc = "http")
                => hist[t].gets = calls[t].attempt + 1

\* one call is in the backoff delay after its second attempt while the
\* other is in an attempt: one slot is taken
C19_Witness ==
    \E t \in Tasks, u \in Tasks :
        /\ owner[t] = owner[u]
        /\ calls[t].pc = "sleep" /\ hist[t].gets = 2
        /\ calls[u].pc = "http"
        /\ sem[owner[t]] = ConcurrencyLimit(apiKey) - 1

----------------------------------------------------------------------------
(* Writes of the cache, checked under SpecRace *)

\* C20 as claimed: once a value is stored under a key, no step changes the
\* value or restarts the expiration of the entry before it expires
C20_EntriesImmutable ==
    [][\A k \in DOMAIN cache :
         k \in DOMAIN cache'
            => cache'[k].val = cache[k].val /\ cache'[k].ttl <= cache[k].ttl]_vars

\* call t writes the entry of key k in this step
Writes(t, k) ==
    /\ calls[t].pc = "cache_set"
    /\ calls'[t].pc = "done"
    /\ CacheKeyOf(t) = k
    /\ cache'[k] = [val |-> JsonDumps(calls[t].result), ttl |-> CacheTtlTicks]

\* call t found no entry when it read the cache, or could not read it
ReadNoEntry(t) ==
    \/ hist[t].cget = "error"
    \/ hist[t].cget = "miss" /\ hist[t].saw = NoSaw

\* C20 as amended: a call that read an entry never writes; the value of an
\* entry is replaced, and its expiration restarted, only by the write of a
\* call for the same (url, params) that found no entry when it read the
\* cache or could not read it, as the second of two calls that both missed
C20_OverwrittenOnlyAfterMiss ==
    [][\A k \in DOMAIN cache :
         (k \in DOMAIN cache'
            /\ (cache'[k].val # cache[k].val \/ cache'[k].ttl > cache[k].ttl))
         => \E t \in Tasks : Writes(t, k) /\ ReadNoEntry(t)]_vars

\* two calls both missed and both wrote: the entry holds the second result,
\* which differs from the first
C20_Witness ==
    /\ \A t \in Tasks : calls[t].pc = "done" /\ hist[t].cget = "miss"
                            /\ hist[t].cset = "ok"
    /\ \E k \in DOMAIN stored : stored[k].last # stored[k].first

----------------------------------------------------------------------------
(* What a failed call leaves in the cache, checked under Spec *)

\* the entry of key k is new, or has a new value or a restarted expiration,
\* after this step
Written(k) ==
    /\ k \in DOMAIN cache'
    /\ \/ k \notin DOMAIN cache
       \/ cache'[k].val # cache[k].val
       \/ cache'[k].ttl > cache[k].ttl

\* call t returns the failure signal in this step
ReturnsFailure(t) ==
    calls[t].pc # "done" /\ calls'[t].pc = "done" /\ calls'[t].result = None

\* C21: the cache is written only by a call whose last attempt received a
\* 2xx response that decoded, under the key of that call's (url, params)
\* and with the decoded result; a call that returns the failure signal has
\* written nothing and leaves the cache as it is, and no entry holds the
\* failure signal, so that no cache hit returns it
C21_FailureWritesNothing ==
    [][/\ \A k \in DOMAIN cache' :
            Written(k)
            => \E t \in Tasks :
                /\ calls[t].pc = "cache_set" /\ k = CacheKeyOf(t)
                /\ GoodResponse(hist[t].last)
                /\ cache'[k].val = JsonDumps(Decode(hist[t].last.body))
       /\ \A t \in Tasks :
            ReturnsFailure(t)
            => /\ hist'[t].cset = "none"
               /\ \A k \in DOMAIN cache' : ~Written(k)
       /\ \A k \in DOMAIN cache' : cache'[k].val # JsonDumps(None)
       /\ \A t \in Tasks :
            (calls'[t].pc = "done" /\ hist'[t].cget = "hit")
                => calls'[t].result # None]_vars

\* with a Redis client, a call that missed the cache and gave up after four
\* transient failures has returned the failure signal, and its key has no
\* entry
C21_Witness ==
    /\ redisOn
    /\ \E t \in Tasks :
        /\ calls[t].pc = "done" /\ calls[t].result = None
        /\ hist[t].cget = "miss" /\ hist[t].fails = MAX_RETRIES
        /\ hist[t].cset = "none"
        /\ CacheKeyOf(t) \notin DOMAIN cache

----------------------------------------------------------------------------
(* Termination of a call, checked under SpecLive *)

\* the bounds of the retry loop: at most MAX_RETRIES attempts and one delay
\* fewer
WithinRetryBounds(t) ==
    hist[t].gets <= MAX_RETRIES /\ Len(hist[t].delays) <= MAX_RETRIES - 1

\* every call that was started ends, by returning or by raising, within the
\* bounds of the retry loop
FetchEnds ==
    \A t \in GatherCalls :
        (calls[t].pc # "idle") ~> (Ended(t) /\ WithinRetryBounds(t))

\* C22: every call that was started eventually returns, after at most 4
\* attempts and at most 3 backoff delays, provided every HTTP attempt ends
\* and every cache operation returns
C22_EveryFetchReturns ==
    \A t \in GatherCalls :
        (calls[t].pc # "idle") ~> (calls[t].pc = "done" /\ WithinRetryBounds(t))

----------------------------------------------------------------------------
(* The gate as a counter, checked under SpecGate *)

\* the calls of client c whose HTTP attempt is in progress
InAttempt(c) == {t \in Tasks : owner[t] = c /\ calls[t].pc = "http"}

\* the calls of client c that are in progress
InProgress(c) ==
    {t \in Tasks : owner[t] = c /\ calls[t].pc \notin {"idle", "done", "raised"}}

\* the attempts in progress and the free slots of client c are within its
\* limit, and all its slots are free when none of its calls is in progress
GateCounted(c) ==
    /\ Cardinality(InAttempt(c)) \in 0..ConcurrencyLimit(apiKey)
    /\ sem[c] \in 0..ConcurrencyLimit(apiKey)
    /\ InProgress(c) = {} => sem[c] = ConcurrencyLimit(apiKey)

\* call t leaves its attempt in this step: it is no longer inside the
\* async with
LeavesAttempt(t) ==
    /\ calls[t].pc \in {"http", "cache_set"}
    /\ calls'[t].pc \notin {"http", "cache_set"}

\* C23: in every client the number of HTTP attempts in progress is between
\* 0 and the client's limit (10 with a credential, 3 without), every way
\* out of an attempt (success, a status that is retried or not, a transport
\* error, an exception that escapes) gives the slot back, and all slots are
\* free when no call of the client is in progress
C23_GateCounts ==
    [][/\ \A c \in DOMAIN sem : GateCounted(c)'
       /\ \A t \in Tasks :
            LeavesAttempt(t) => sem'[owner[t]] = sem[owner[t]] + 1]_vars

\* without a credential three attempts are in progress, no slot is free and
\* the fourth call waits at the gate
C23_Witness ==
    /\ ~apiKey
    /\ \E c \in DOMAIN sem :
        /\ Cardinality(InAttempt(c)) = CONCURRENCY_LIMIT_WITHOUT_KEY
        /\ sem[c] = 0
        /\ \E t \in Tasks : owner[t] = c /\ calls[t].pc = "acquire"

\* the four calls have ended, one of them after its last attempt, and the
\* three slots are free again
C23_AllFree ==
    /\ ~apiKey
    /\ \A t \in Tasks : Ended(t)
    /\ \E t \in Tasks : hist[t].gets = MAX_RETRIES
    /\ \A c \in DOMAIN sem : sem[c] = CONCURRENCY_LIMIT_WITHOUT_KEY

----------------------------------------------------------------------------
(* The order of a response, checked under SpecOrder *)

\* where id p stands in the list the search returned
PositionOf(p) == CHOOSE i \in 1..Len(arg.pmids) : arg.pmids[i] = p

\* the ids of the legs that gave an article
IdsWithArticle ==
    {arg.pmids[i] : i \in {l \in EndedLegs : ResultOfLeg(l) # NoArticle}}

\* the legs ended in the order of the ids
EndedInOrder ==
    \A j \in 1..Len(op.got) : \A k \in 1..Len(op.got) :
        j < k => op.got[j].data.leg < op.got[k].data.leg

\* C24: the response of a request of several ids holds the articles of the
\* legs that gave one, each once, in the order in which the search returned
\* their ids, in whatever order the legs ended; the legs that are dropped
\* leave the others in that order
C24_ResponseInSearchOrder ==
    ret.done
    => /\ {ret.value[j].pmid : j \in 1..Len(ret.value)} = IdsWithArticle
       /\ Len(ret.value) = Cardinality(IdsWithArticle)
       /\ \A j \in 1..Len(ret.value) : \A k \in 1..Len(ret.value) :
            j < k => PositionOf(ret.value[j].pmid) < PositionOf(ret.value[k].pmid)

\* the search returned 2, 1, 3; the legs ended last to first, the second
\* with no data: the response holds the articles of 2 and 3, in this order
C24_Witness ==
    /\ ret.done
    /\ arg.pmids = <<2, 1, 3>>
    /\ [j \in 1..Len(op.got) |-> op.got[j].data.leg] = <<3, 2, 1>>
    /\ ~EndedInOrder
    /\ [j \in 1..Len(ret.value) |-> ret.value[j].pmid] = <<2, 3>>

====
